---- MODULE Spec2Model ----
(***************************************************************************)
(* A model of Plot3DShadows (plot3dshadows/plot3dshadows.py): a wrapper    *)
(* around a matplotlib 3D axis that remembers what was plotted and draws   *)
(* shadows of it on the coordinate planes.                                 *)
(*                                                                         *)
(* Python objects that are shared by reference are kept in a heap: the     *)
(* dict bound to the default argument shadow_positions is one object,      *)
(* created when the function is defined, and every projector constructed   *)
(* without that argument refers to it.                                     *)
(*                                                                         *)
(* A dict is a sequence of <<key, value>> pairs with distinct keys, in     *)
(* insertion order (the order Python iterates it in).  Coordinates and     *)
(* axis limits are counted in halves (3 stands for 1.5); the opacity of a  *)
(* style and a shadow ratio are counted in tenths, their product, the      *)
(* opacity of a shadow, in hundredths.                                     *)
(*                                                                         *)
(* calls holds the draw calls the last operation made on the axis, last    *)
(* names that operation, and phase records how far a run has got through   *)
(* "render, then change the limits, then change the selectors" (it is      *)
(* advanced in SpecRender only and read by no operation).                  *)
(***************************************************************************)
EXTENDS Integers, Sequences, FiniteSets, TLC

VARIABLES heap, projectors, lims, calls, last, phase

vars == <<heap, projectors, lims, calls, last, phase>>

\* ------------------------------------------------------------------ bounds
MaxProjectors == 2
MaxData == 2

\* --------------------------------------------------------- lists and dicts
InList(v, l) == \E i \in DOMAIN l : l[i] = v

DictHas(d, k) == \E i \in DOMAIN d : d[i][1] = k

\* d.get(k, dflt)
DictGet(d, k, dflt) ==
    IF DictHas(d, k) THEN d[CHOOSE i \in DOMAIN d : d[i][1] = k][2] ELSE dflt

\* d[k] = v : an existing key keeps its place, a new key goes to the end
DictSet(d, k, v) ==
    IF DictHas(d, k)
    THEN [i \in DOMAIN d |-> IF d[i][1] = k THEN <<k, v>> ELSE d[i]]
    ELSE Append(d, <<k, v>>)

\* a plausible slip: the update replaces the map instead of merging into it
DictReplace(d, u) == u

\* d.update(u), entry by entry in u's iteration order
RECURSIVE DictUpdate(_, _)
DictUpdate(d, u) ==
    IF u = <<>> THEN d
    ELSE DictUpdate(DictSet(d, u[1][1], u[1][2]), Tail(u))

\* ------------------------------------------------------------- validation
valid_planes == <<"xy", "xz", "yz">>

valid_positions == <<"min", "max">>

\* the default arguments of __init__
DefaultPlanes == <<"xy", "xz", "yz">>

DefaultPositions == << <<"xy", "min">>, <<"xz", "min">>, <<"yz", "min">> >>

DefaultRatio == 3

\* the heap address of the dict bound to the default argument
DefaultRef == 1

PlanesInvalid(planes) ==
    \E i \in DOMAIN planes : ~InList(planes[i], valid_planes)

PositionsInvalid(d) ==
    \E i \in DOMAIN d : ~InList(d[i][2], valid_positions)

\* a plausible slip: the constructor validates the planes only
InitRaisesPlanesOnly(planes, positions) == PlanesInvalid(planes)

\* __init__ raises ValueError
InitRaises(planes, positions) ==
    PlanesInvalid(planes) \/ PositionsInvalid(positions)

\* a plausible slip: each entry is validated and stored in the same loop, so
\* the entries before the first invalid one are already stored when it raises
RECURSIVE SetPositionsEager(_, _)
SetPositionsEager(d, u) ==
    IF u = <<>> THEN d
    ELSE IF ~InList(u[1][2], valid_positions) THEN d
    ELSE SetPositionsEager(DictSet(d, u[1][1], u[1][2]), Tail(u))

\* the dict self.shadow_positions after set_shadow_positions(u)
SetPositionsResult(d, u) ==
    IF PositionsInvalid(u) THEN d ELSE DictUpdate(d, u)

\* ------------------------------------------------------------------ inputs
\* shadow_planes arguments: the default, a reordered list, a list that names
\* a plane twice, no plane, and the invalid list of the tests
PlaneArgs ==
    { DefaultPlanes, <<"yz", "xy">>, <<"xy", "xy">>, <<>>,
      <<"xy", "invalid">> }

\* shadow_positions arguments of the constructor: omitted (given = FALSE,
\* the default dict is used) or a dict of the caller
Omitted == [given |-> FALSE, d |-> <<>>]

Given(d) == [given |-> TRUE, d |-> d]

PositionDicts ==
    { << <<"xy", "max">>, <<"xz", "min">> >>,
      << <<"zz", "max">> >>,
      << <<"xy", "invalid">> >>,
      << <<"xy", "max">>, <<"yz", "invalid">> >>,
      << <<"yz", "invalid">>, <<"xy", "max">> >> }

\* the dicts used where shadows are drawn: every plane gets both selectors
DrawPositionDicts ==
    { << <<"xy", "max">>, <<"xz", "min">> >>,
      << <<"xz", "max">>, <<"yz", "max">> >>,
      << <<"xy", "max">>, <<"yz", "invalid">> >> }

RatioArgs == {DefaultRatio, 5}

\* ------------------------------------------------------------------- state
\* the axis limits the fixtures set: -5 .. 5 on every axis
FixtureLims == [x |-> <<-10, 10>>, y |-> <<-10, 10>>, z |-> <<-10, 10>>]

Init ==
    /\ heap = <<DefaultPositions>>
    /\ projectors = <<>>
    /\ lims = FixtureLims
    /\ calls = <<>>
    /\ last = [op |-> "none", self |-> 0, arg |-> <<>>, raised |-> FALSE]
    /\ phase = 0

\* the dict a projector's shadow_positions refers to
Positions(p) == heap[projectors[p].shadow_positions]

\* Plot3DShadows(ax, ratio, planes, positions)
Construct(ratio, planes, positions) ==
    LET ref == IF positions.given THEN Len(heap) + 1 ELSE DefaultRef
        d   == IF positions.given THEN positions.d ELSE heap[DefaultRef]
        arg == [ratio |-> ratio, planes |-> planes, positions |-> positions]
    IN  /\ Len(projectors) < MaxProjectors
        /\ calls' = <<>>
        /\ lims' = lims
        /\ IF InitRaises(planes, d)
           THEN /\ last' = [op |-> "init", self |-> 0, arg |-> arg,
                            raised |-> TRUE]
                /\ UNCHANGED <<heap, projectors>>
           ELSE /\ heap' = IF positions.given THEN Append(heap, d) ELSE heap
                /\ projectors' = Append(projectors,
                      [shadow_alpha_ratio |-> ratio,
                       shadow_planes |-> planes,
                       shadow_positions |-> ref,
                       scatter_data |-> <<>>,
                       plot_data |-> <<>>])
                /\ last' = [op |-> "init", self |-> Len(projectors) + 1,
                            arg |-> arg, raised |-> FALSE]

\* projectors[p].set_shadow_positions(u)
SetShadowPositions(p, u) ==
    /\ p \in DOMAIN projectors
    /\ heap' = [heap EXCEPT ![projectors[p].shadow_positions] =
                    SetPositionsResult(@, u)]
    /\ last' = [op |-> "set_shadow_positions", self |-> p, arg |-> u,
                raised |-> PositionsInvalid(u)]
    /\ calls' = <<>>
    /\ UNCHANGED <<projectors, lims>>

\* ------------------------------------------- several projectors, no drawing
ConstructShared ==
    \E planes \in PlaneArgs :
    \E positions \in {Omitted} \cup {Given(d) : d \in PositionDicts} :
        Construct(DefaultRatio, planes, positions) /\ UNCHANGED phase

SetShadowPositionsShared ==
    \E p \in DOMAIN projectors : \E u \in PositionDicts :
        SetShadowPositions(p, u) /\ UNCHANGED phase

NextShared == ConstructShared \/ SetShadowPositionsShared

SpecShared == Init /\ [][NextShared]_vars

\* ------------------------------------------------------ numbers and arrays
\* a Python number: an int (a whole number of halves) or a float
I(n) == [t |-> "int", v |-> 2 * n]

F(h) == [t |-> "float", v |-> h]

\* a plausible slip: the array is built with an integer dtype
NpArrayInt(x) ==
    [dtype |-> "int64",
     vals |-> [i \in DOMAIN x |-> IF x[i].v >= 0 THEN (x[i].v \div 2) * 2
                                  ELSE -(((-x[i].v) \div 2) * 2)]]

\* np.array(x) of a list of numbers: int64 when every element is an int,
\* float64 otherwise (an empty list too); the values are kept
NpArray(x) ==
    [dtype |-> IF Len(x) > 0 /\ \A i \in DOMAIN x : x[i].t = "int"
               THEN "int64" ELSE "float64",
     vals |-> [i \in DOMAIN x |-> x[i].v]]

\* the conversion of a float to an element of an array of the given dtype:
\* an integer dtype drops the fraction (towards zero)
CastTo(dtype, v) ==
    IF dtype = "int64"
    THEN IF v >= 0 THEN (v \div 2) * 2 ELSE -(((-v) \div 2) * 2)
    ELSE v

\* np.full_like(a, fill): the shape and the dtype of a, every element fill
FullLike(a, fill) ==
    [dtype |-> a.dtype,
     vals |-> [i \in DOMAIN a.vals |-> CastTo(a.dtype, fill)]]

\* kwargs.get(key, dflt)
KGet(kwargs, key, dflt) ==
    IF key \in DOMAIN kwargs THEN kwargs[key] ELSE dflt

\* the absent shadow_alpha_ratio (None) and a given one
None == <<>>

Some(v) == <<v>>

\* -------------------------------------------------------- drawing inputs
IntCoords ==
    [x |-> <<I(1), I(2)>>, y |-> <<I(3), I(4)>>, z |-> <<I(0), I(1)>>]

MixedCoords ==
    [x |-> <<I(1), F(5)>>, y |-> <<F(1), F(3)>>, z |-> <<F(-3), I(2)>>]

OriginCoords == [x |-> <<I(0)>>, y |-> <<I(0)>>, z |-> <<I(0)>>]

Submit(c, ratio, kwargs) ==
    [x |-> c.x, y |-> c.y, z |-> c.z, shadow_alpha_ratio |-> ratio,
     kwargs |-> kwargs]

SubmitArgs ==
    { Submit(IntCoords, None, [color |-> "blue"]),
      Submit(MixedCoords, Some(0), [c |-> "green", alpha |-> 5]),
      Submit(IntCoords, Some(5), [s |-> 50]),
      Submit(OriginCoords, None, [color |-> "red", alpha |-> 5]) }

\* axis limits: those of the fixtures, and limits that are no whole numbers
\* (x in -0.5 .. 3.5, y in -1.5 .. 2.5, z in -2.5 .. 4.5)
LimArgs ==
    { FixtureLims, [x |-> <<-1, 7>>, y |-> <<-3, 5>>, z |-> <<-5, 9>>] }

\* ----------------------------------------------------------------- drawing
\* the record scatter and plot store for one submission
StoredData(s) ==
    [x |-> NpArray(s.x), y |-> NpArray(s.y), z |-> NpArray(s.z),
     shadow_alpha_ratio |-> s.shadow_alpha_ratio,
     kwargs |-> s.kwargs]

Call(func, x, y, z, kwargs) ==
    [func |-> func, x |-> x, y |-> y, z |-> z, kwargs |-> kwargs]

\* projectors[p].scatter(s.x, s.y, s.z, s.shadow_alpha_ratio, **s.kwargs)
Scatter(p, s) ==
    /\ p \in DOMAIN projectors
    /\ Len(projectors[p].scatter_data) + Len(projectors[p].plot_data) < MaxData
    /\ calls' = <<Call("scatter", s.x, s.y, s.z, s.kwargs)>>
    /\ projectors' = [projectors EXCEPT
                         ![p].scatter_data = Append(@, StoredData(s))]
    /\ last' = [op |-> "scatter", self |-> p, arg |-> s, raised |-> FALSE]
    /\ UNCHANGED <<heap, lims>>

\* projectors[p].plot(s.x, s.y, s.z, s.shadow_alpha_ratio, **s.kwargs)
Plot(p, s) ==
    /\ p \in DOMAIN projectors
    /\ Len(projectors[p].scatter_data) + Len(projectors[p].plot_data) < MaxData
    /\ calls' = <<Call("plot", s.x, s.y, s.z, s.kwargs)>>
    /\ projectors' = [projectors EXCEPT
                         ![p].plot_data = Append(@, StoredData(s))]
    /\ last' = [op |-> "plot", self |-> p, arg |-> s, raised |-> FALSE]
    /\ UNCHANGED <<heap, lims>>

\* the value one axis is clamped to: the lower limit when the selector of the
\* plane is 'min' or the plane has no selector, the upper limit otherwise
ClampValue(positions, plane, lim) ==
    IF DictGet(positions, plane, "min") = "min" THEN lim[1] ELSE lim[2]

\* a plausible slip: the axis limits are read once, when the axis is set up,
\* and the shadows are clamped to those
ShadowCoordsCachedLims(p, plane, data) ==
    CASE plane = "xy" ->
           [x |-> data.x, y |-> data.y,
            z |-> FullLike(data.z, ClampValue(Positions(p), "xy", FixtureLims.z))]
      [] plane = "xz" ->
           [x |-> data.x,
            y |-> FullLike(data.y, ClampValue(Positions(p), "xz", FixtureLims.y)),
            z |-> data.z]
      [] plane = "yz" ->
           [x |-> FullLike(data.x, ClampValue(Positions(p), "yz", FixtureLims.x)),
            y |-> data.y, z |-> data.z]

\* plane_configs[plane] applied to the three arrays of data
ShadowCoords(p, plane, data) ==
    CASE plane = "xy" ->
           [x |-> data.x, y |-> data.y,
            z |-> FullLike(data.z, ClampValue(Positions(p), "xy", lims.z))]
      [] plane = "xz" ->
           [x |-> data.x,
            y |-> FullLike(data.y, ClampValue(Positions(p), "xz", lims.y)),
            z |-> data.z]
      [] plane = "yz" ->
           [x |-> FullLike(data.x, ClampValue(Positions(p), "yz", lims.x)),
            y |-> data.y, z |-> data.z]

\* a plausible slip: a ratio of 0 is taken for an absent one
EffectiveRatioFalsy(given, default) ==
    IF given # None /\ given[1] # 0 THEN given[1] ELSE default

\* the ratio of a submission: its own if it is not None, else the projector's
EffectiveRatio(given, default) ==
    IF given # None THEN given[1] ELSE default

\* prepare_shadow_kwargs(data)
PrepareShadowKwargs(p, data) ==
    LET kw == data.kwargs
        original_alpha == KGet(kw, "alpha", 10)
        shadow_alpha ==
            original_alpha * EffectiveRatio(data.shadow_alpha_ratio,
                                            projectors[p].shadow_alpha_ratio)
        color == IF "c" \in DOMAIN kw THEN kw["c"]
                 ELSE KGet(kw, "color", "gray")
    IN  [k \in (DOMAIN kw \ {"c"}) \cup {"alpha", "color"} |->
            CASE k = "alpha" -> shadow_alpha
              [] k = "color" -> color
              [] OTHER -> kw[k]]

\* a plausible slip: the planes are visited in the canonical order
PlanesToDrawSorted(planes) ==
    SelectSeq(valid_planes, LAMBDA pl : InList(pl, planes))

\* the planes plot_shadow_for_data draws on, in the order it visits them
PlanesToDraw(planes) ==
    SelectSeq(planes, LAMBDA pl : pl \in {"xy", "xz", "yz"})

\* plot_shadow_for_data(data, plot_func): the draw calls it makes
PlotShadowForData(p, data, func) ==
    LET kw == PrepareShadowKwargs(p, data)
        planes == PlanesToDraw(projectors[p].shadow_planes)
    IN  [i \in DOMAIN planes |->
            LET c == ShadowCoords(p, planes[i], data)
            IN  Call(func, c.x, c.y, c.z, kw)]

\* the draw calls of one loop of plot_shadows over a list of stored data
RECURSIVE PlotShadowsLoop(_, _, _)
PlotShadowsLoop(p, datas, func) ==
    IF datas = <<>> THEN <<>>
    ELSE PlotShadowForData(p, Head(datas), func)
             \o PlotShadowsLoop(p, Tail(datas), func)

\* a plausible slip: the stored paths are replayed through ax.scatter
PlotShadowsCallsAllScatter(p) ==
    PlotShadowsLoop(p, projectors[p].scatter_data, "scatter")
        \o PlotShadowsLoop(p, projectors[p].plot_data, "scatter")

\* the draw calls of plot_shadows, in order
PlotShadowsCalls(p) ==
    PlotShadowsLoop(p, projectors[p].scatter_data, "scatter")
        \o PlotShadowsLoop(p, projectors[p].plot_data, "plot")

\* projectors[p].plot_shadows()
PlotShadows(p) ==
    /\ p \in DOMAIN projectors
    /\ calls' = PlotShadowsCalls(p)
    /\ last' = [op |-> "plot_shadows", self |-> p, arg |-> <<>>,
                raised |-> FALSE]
    /\ UNCHANGED <<heap, projectors, lims>>

\* ax.set_xlim(..); ax.set_ylim(..); ax.set_zlim(..) by the caller
SetLim(l) ==
    /\ lims' = l
    /\ calls' = <<>>
    /\ last' = [op |-> "set_lim", self |-> 0, arg |-> l,
                raised |-> FALSE]
    /\ UNCHANGED <<heap, projectors>>

\* ------------------------------------------------ one projector, drawing
ConstructOne ==
    /\ projectors = <<>>
    /\ \E ratio \in RatioArgs : \E planes \in PlaneArgs :
       \E positions \in {Omitted} \cup {Given(d) : d \in DrawPositionDicts} :
           Construct(ratio, planes, positions) /\ UNCHANGED phase

SetShadowPositionsOne ==
    \E p \in DOMAIN projectors : \E u \in DrawPositionDicts :
        SetShadowPositions(p, u) /\ UNCHANGED phase

ScatterOne ==
    \E p \in DOMAIN projectors : \E s \in SubmitArgs :
        Scatter(p, s) /\ UNCHANGED phase

PlotOne ==
    \E p \in DOMAIN projectors : \E s \in SubmitArgs :
        Plot(p, s) /\ UNCHANGED phase

PlotShadowsOne ==
    \E p \in DOMAIN projectors : PlotShadows(p) /\ UNCHANGED phase

SetLimAny == \E l \in LimArgs : SetLim(l) /\ UNCHANGED phase

Next ==
    \/ ConstructOne
    \/ SetShadowPositionsOne
    \/ ScatterOne
    \/ PlotOne
    \/ PlotShadowsOne
    \/ SetLimAny

Spec == Init /\ [][Next]_vars

\* ------------------------- one projector, drawing again after changes
\* how far the run has got once this step is taken: 1 when shadows of stored
\* data have been drawn, 2 when the axis limits have changed after that,
\* 3 when a position map has changed after that
Progress ==
    CASE phase = 0 /\ last'.op = "plot_shadows" /\ calls' # <<>> -> 1
      [] phase = 1 /\ lims' # lims -> 2
      [] phase = 2 /\ heap' # heap /\ Len(heap') = Len(heap) -> 3
      [] OTHER -> phase

RenderPlaneArgs == { DefaultPlanes, <<"yz", "xy">> }

ConstructRender ==
    /\ projectors = <<>>
    /\ \E planes \in RenderPlaneArgs :
       \E positions \in {Omitted} \cup {Given(d) : d \in DrawPositionDicts} :
           Construct(DefaultRatio, planes, positions) /\ phase' = Progress

SetShadowPositionsRender ==
    \E p \in DOMAIN projectors : \E u \in DrawPositionDicts :
        SetShadowPositions(p, u) /\ phase' = Progress

ScatterRender ==
    \E p \in DOMAIN projectors : \E s \in SubmitArgs :
        Scatter(p, s) /\ phase' = Progress

PlotRender ==
    \E p \in DOMAIN projectors : \E s \in SubmitArgs :
        Plot(p, s) /\ phase' = Progress

PlotShadowsRender ==
    \E p \in DOMAIN projectors : PlotShadows(p) /\ phase' = Progress

SetLimRender == \E l \in LimArgs : SetLim(l) /\ phase' = Progress

NextRender ==
    \/ ConstructRender
    \/ SetShadowPositionsRender
    \/ ScatterRender
    \/ PlotRender
    \/ PlotShadowsRender
    \/ SetLimRender

SpecRender == Init /\ [][NextRender]_vars

\* =============================================================== properties
Planes == {"xy", "xz", "yz"}

Selectors == {"min", "max"}

DictItems(d) == {d[i] : i \in DOMAIN d}

DictKeys(d) == {d[i][1] : i \in DOMAIN d}

DictValues(d) == {d[i][2] : i \in DOMAIN d}

\* the position maps of projector p before and after the step
PositionsBefore(p) == heap[projectors[p].shadow_positions]

PositionsAfter(p) == heap'[projectors'[p].shadow_positions]

\* C1: a set_shadow_positions call whose update has only the values 'min' and
\* 'max' succeeds and merges the update into the position map: afterwards
\* every plane named in the update has the new selector, and every plane not
\* named in it has the selector (or the absence) it had before the call.
C1_SetShadowPositionsMerges ==
    [][ (last'.op = "set_shadow_positions"
            /\ DictValues(last'.arg) \subseteq Selectors)
        => LET u == last'.arg
               before == PositionsBefore(last'.self)
               after == PositionsAfter(last'.self)
           IN  /\ ~last'.raised
               /\ \A k \in DictKeys(u) :
                     DictHas(after, k)
                     /\ DictGet(after, k, "absent") = DictGet(u, k, "absent")
               /\ \A k \in (DictKeys(before) \cup DictKeys(after)) \ DictKeys(u) :
                     DictHas(after, k) /\ DictHas(before, k)
                     /\ DictGet(after, k, "absent") = DictGet(before, k, "absent")
      ]_vars

\* a successful update that names some planes and leaves another one alone
C1_Witness ==
    /\ last.op = "set_shadow_positions"
    /\ ~last.raised
    /\ last.arg = << <<"xy", "max">>, <<"xz", "min">> >>
    /\ DictGet(Positions(last.self), "xy", "absent") = "max"
    /\ DictGet(Positions(last.self), "yz", "absent") = "min"

\* C2: a set_shadow_positions call whose update has an invalid value raises
\* and leaves every position map (and every projector) as it was, whatever
\* valid entries the update has before or after the invalid one.
C2_SetShadowPositionsAllOrNothing ==
    [][ (last'.op = "set_shadow_positions"
            /\ ~(DictValues(last'.arg) \subseteq Selectors))
        => /\ last'.raised
           /\ heap' = heap
           /\ projectors' = projectors
      ]_vars

\* a failed update whose first entry is valid and differs from what is stored
C2_Witness ==
    /\ last.op = "set_shadow_positions"
    /\ last.raised
    /\ last.arg = << <<"xy", "max">>, <<"yz", "invalid">> >>
    /\ DictGet(Positions(last.self), "xy", "absent") = "min"

\* C3: a construction raises exactly when shadow_planes names a plane other
\* than xy, xz, yz or the given shadow_positions has a value other than min,
\* max; when it raises there is no new projector and nothing has changed,
\* and when it does not there is exactly one new projector.
C3_ConstructValidates ==
    [][ last'.op = "init"
        => LET a == last'.arg
               bad == \/ \E i \in DOMAIN a.planes : a.planes[i] \notin Planes
                      \/ /\ a.positions.given
                         /\ ~(DictValues(a.positions.d) \subseteq Selectors)
           IN  /\ last'.raised <=> bad
               /\ last'.raised => (projectors' = projectors /\ heap' = heap)
               /\ ~last'.raised => Len(projectors') = Len(projectors) + 1
      ]_vars

\* a construction that raised for its shadow_positions alone
C3_Witness ==
    /\ last.op = "init"
    /\ last.raised
    /\ last.arg.planes = DefaultPlanes
    /\ last.arg.positions = Given(<< <<"xy", "invalid">> >>)
    /\ Len(projectors) = 1

\* C9: the configuration of a projector is its own: a set_shadow_positions
\* call on one projector leaves the position map of every other projector as
\* it was, and a projector constructed without a shadow_positions argument
\* has the position map {xy: min, xz: min, yz: min}.
C9_ConfigurationNotShared ==
    [][ /\ last'.op = "set_shadow_positions"
           => \A q \in DOMAIN projectors \ {last'.self} :
                 PositionsAfter(q) = PositionsBefore(q)
        /\ (last'.op = "init" /\ ~last'.raised /\ ~last'.arg.positions.given)
           => DictItems(PositionsAfter(last'.self)) = DictItems(DefaultPositions)
      ]_vars

\* C10: in every reachable state the keys of every projector's position map
\* are among xy, xz, yz and its values are among min, max.
C10_PositionMapWellFormed ==
    \A p \in DOMAIN projectors :
        /\ DictKeys(Positions(p)) \subseteq Planes
        /\ DictValues(Positions(p)) \subseteq Selectors

\* --------------------------------------------------- properties of drawing
\* the array a holds the numbers of the list x, element by element
SameValues(a, x) ==
    /\ DOMAIN a.vals = DOMAIN x
    /\ \A i \in DOMAIN x : a.vals[i] = x[i].v

\* C4: a scatter (a plot) call makes exactly one draw call, to ax.scatter
\* (ax.plot), with the coordinates and the style it was given, and appends
\* one record to scatter_data (plot_data) whose arrays hold the values given
\* and whose style is the style given; the records stored before keep their
\* content and order, and the other list and the rest of the projectors are
\* as they were.
C4_SubmitDrawsAndStores ==
    [][ last'.op \in {"scatter", "plot"}
        => LET p == last'.self
               s == last'.arg
               sc == last'.op = "scatter"
               ownBefore == IF sc THEN projectors[p].scatter_data
                            ELSE projectors[p].plot_data
               ownAfter == IF sc THEN projectors'[p].scatter_data
                           ELSE projectors'[p].plot_data
               otherBefore == IF sc THEN projectors[p].plot_data
                              ELSE projectors[p].scatter_data
               otherAfter == IF sc THEN projectors'[p].plot_data
                             ELSE projectors'[p].scatter_data
               r == ownAfter[Len(ownAfter)]
           IN  /\ calls' = << [func |-> last'.op, x |-> s.x, y |-> s.y,
                               z |-> s.z, kwargs |-> s.kwargs] >>
               /\ Len(ownAfter) = Len(ownBefore) + 1
               /\ SubSeq(ownAfter, 1, Len(ownBefore)) = ownBefore
               /\ SameValues(r.x, s.x)
               /\ SameValues(r.y, s.y)
               /\ SameValues(r.z, s.z)
               /\ r.kwargs = s.kwargs
               /\ otherAfter = otherBefore
               /\ \A q \in DOMAIN projectors \ {p} : projectors'[q] = projectors[q]
      ]_vars

\* a path of floats stored behind an earlier path
C4_Witness ==
    /\ last.op = "plot"
    /\ last.arg.x = MixedCoords.x
    /\ Len(projectors[last.self].plot_data) >= 2

\* what is stored, point-sets first
AllData(p) == projectors[p].scatter_data \o projectors[p].plot_data

\* C5 as stated: plot_shadows makes one draw call for every pair of a stored
\* submission and an active plane, and no other: (point-sets + paths) times
\* (number of distinct active planes) calls, the point-set shadows through
\* ax.scatter and the path shadows through ax.plot.
C5_OneCallPerSubmissionAndPlane ==
    last.op = "plot_shadows"
    => LET pr == projectors[last.self]
           active == {pr.shadow_planes[i] : i \in DOMAIN pr.shadow_planes}
           through(f) == Cardinality({k \in DOMAIN calls : calls[k].func = f})
       IN  /\ through("scatter") = Len(pr.scatter_data) * Cardinality(active)
           /\ through("plot") = Len(pr.plot_data) * Cardinality(active)
           /\ Len(calls) = (Len(pr.scatter_data) + Len(pr.plot_data))
                               * Cardinality(active)

\* C5 as amended: plot_shadows makes one draw call for every pair of a stored
\* submission and an entry of the shadow_planes list (a plane listed twice is
\* drawn twice): (point-sets + paths) times Len(shadow_planes) calls, none
\* when nothing is stored; first the point-set shadows, through ax.scatter,
\* then the path shadows, through ax.plot.
C5_OneCallPerSubmissionAndListEntry ==
    last.op = "plot_shadows"
    => LET pr == projectors[last.self]
           n == Len(pr.shadow_planes)
       IN  /\ Len(calls) = (Len(pr.scatter_data) + Len(pr.plot_data)) * n
           /\ \A k \in DOMAIN calls :
                 calls[k].func = IF k <= Len(pr.scatter_data) * n
                                 THEN "scatter" ELSE "plot"

\* shadows of a point-set and of a path drawn on a plane that is listed twice
C5_Witness ==
    /\ last.op = "plot_shadows"
    /\ projectors[last.self].shadow_planes = <<"xy", "xy">>
    /\ Len(projectors[last.self].scatter_data) = 1
    /\ Len(projectors[last.self].plot_data) >= 1
    /\ Len(calls) >= 4

\* the axis a plane clamps
ClampedAxis(plane) ==
    CASE plane = "xy" -> "z" [] plane = "xz" -> "y" [] plane = "yz" -> "x"

\* the draw call c has the coordinates of d with the array of the axis that
\* the plane clamps replaced by an array of the same length whose elements
\* all equal v, and the other two arrays passed through
IsProjection(c, d, plane, v) ==
    LET ax == ClampedAxis(plane)
    IN  /\ \A a \in {"x", "y", "z"} \ {ax} : c[a] = d[a]
        /\ DOMAIN c[ax].vals = DOMAIN d[ax].vals
        /\ \A i \in DOMAIN c[ax].vals : c[ax].vals[i] = v

\* C6: for every stored submission and every active plane, plot_shadows
\* makes a draw call (through the primitive of the submission) with the
\* stored coordinates in which the array of the clamped axis is replaced by
\* an array of the same length whose elements all equal the current lower
\* limit of that axis when the selector of the plane is min or absent, and
\* the current upper limit when it is max.
C6_ShadowIsClampedToLimit ==
    last.op = "plot_shadows"
    => LET p == last.self
           pr == projectors[p]
           active == {pr.shadow_planes[i] : i \in DOMAIN pr.shadow_planes}
           limit(plane) ==
               LET sel == IF DictHas(Positions(p), plane)
                          THEN DictGet(Positions(p), plane, "min") ELSE "min"
               IN  IF sel = "min" THEN lims[ClampedAxis(plane)][1]
                   ELSE lims[ClampedAxis(plane)][2]
           drawn(d, f) ==
               \A plane \in active :
                   \E k \in DOMAIN calls :
                       /\ calls[k].func = f
                       /\ IsProjection(calls[k], d, plane, limit(plane))
       IN  /\ \A j \in DOMAIN pr.scatter_data : drawn(pr.scatter_data[j], "scatter")
           /\ \A j \in DOMAIN pr.plot_data : drawn(pr.plot_data[j], "plot")

\* C7: the opacity of every shadow draw call is the opacity of the style of
\* its submission (1.0 when the style has none) times the ratio given with
\* the submission (0 included), or times the projector's ratio when none
\* was given; plot_shadows changes nothing that is stored.
C7_ShadowOpacity ==
    [][ last'.op = "plot_shadows"
        => LET p == last'.self
               n == Len(projectors[p].shadow_planes)
               opacity(d) ==
                   (IF "alpha" \in DOMAIN d.kwargs THEN d.kwargs["alpha"] ELSE 10)
                   * (IF d.shadow_alpha_ratio = None
                      THEN projectors[p].shadow_alpha_ratio
                      ELSE d.shadow_alpha_ratio[1])
           IN  /\ projectors' = projectors
               /\ heap' = heap
               /\ Len(calls') = Len(AllData(p)) * n
               /\ \A k \in DOMAIN calls' :
                     calls'[k].kwargs["alpha"]
                         = opacity(AllData(p)[((k - 1) \div n) + 1])
      ]_vars

\* shadows drawn of a submission given the ratio 0 with a style of opacity
\* 0.5, and of a submission given no ratio with a style without opacity
C7_Witness ==
    /\ last.op = "plot_shadows"
    /\ calls # <<>>
    /\ \E j \in DOMAIN AllData(last.self) :
          /\ AllData(last.self)[j].shadow_alpha_ratio = Some(0)
          /\ "alpha" \in DOMAIN AllData(last.self)[j].kwargs
    /\ \E j \in DOMAIN AllData(last.self) :
          /\ AllData(last.self)[j].shadow_alpha_ratio = None
          /\ "alpha" \notin DOMAIN AllData(last.self)[j].kwargs
    /\ projectors[last.self].shadow_alpha_ratio # DefaultRatio

\* the draw call c is a shadow of d on the plane: the array of the clamped
\* axis is a constant array of the same length, the other two are those of d
IsShadowOn(c, d, plane) ==
    LET ax == ClampedAxis(plane)
    IN  /\ \A a \in {"x", "y", "z"} \ {ax} : c[a] = d[a]
        /\ DOMAIN c[ax].vals = DOMAIN d[ax].vals
        /\ \A i, j \in DOMAIN c[ax].vals : c[ax].vals[i] = c[ax].vals[j]

\* the entries of a list of planes in the order xy, xz, yz
CanonicalOrder(planes) ==
    SelectSeq(planes, LAMBDA pl : pl = "xy")
        \o SelectSeq(planes, LAMBDA pl : pl = "xz")
        \o SelectSeq(planes, LAMBDA pl : pl = "yz")

\* the shadows of every submission are drawn on the planes in the order given
ShadowsDrawnInOrder(p, order) ==
    LET n == Len(order)
    IN  /\ Len(calls) = Len(AllData(p)) * n
        /\ \A j \in DOMAIN AllData(p) : \A i \in 1..n :
              IsShadowOn(calls[(j - 1) * n + i], AllData(p)[j], order[i])

\* C8 as stated: the shadows of each submission are drawn in the order xy,
\* xz, yz, whatever the order of the shadow_planes list.
C8_CanonicalPlaneOrder ==
    last.op = "plot_shadows"
    => ShadowsDrawnInOrder(last.self,
                           CanonicalOrder(projectors[last.self].shadow_planes))

\* C8 as amended: the shadows of each submission are drawn in the order of
\* the projector's shadow_planes list (xy, xz, yz for the default list only).
C8_ListedPlaneOrder ==
    last.op = "plot_shadows"
    => ShadowsDrawnInOrder(last.self, projectors[last.self].shadow_planes)

\* shadows drawn for shadow_planes = ['yz', 'xy'] of arrays that are not
\* constant: the first call of the submission clamps x, the second clamps z
C8_Witness ==
    /\ last.op = "plot_shadows"
    /\ projectors[last.self].shadow_planes = <<"yz", "xy">>
    /\ Len(calls) >= 2
    /\ AllData(last.self)[1].x = NpArray(IntCoords.x)
    /\ calls[1].x # AllData(last.self)[1].x
    /\ calls[2].z # AllData(last.self)[1].z

\* C11: every plot_shadows call, whatever was submitted, set or drawn before
\* it and in whatever order, draws the shadows of everything stored at that
\* moment again, one per stored submission and entry of shadow_planes, and
\* clamps each to the axis limit in force at that moment, chosen by the
\* selector in force at that moment (the limit is converted to the dtype of
\* the stored array, as every element of that array is).
C11_RenderReadsCurrentState ==
    last.op = "plot_shadows"
    => LET p == last.self
           planes == projectors[p].shadow_planes
           n == Len(planes)
           stored == AllData(p)
           limitNow(plane) ==
               IF DictGet(Positions(p), plane, "min") = "min"
               THEN lims[ClampedAxis(plane)][1]
               ELSE lims[ClampedAxis(plane)][2]
       IN  /\ Len(calls) = Len(stored) * n
           /\ \A j \in DOMAIN stored : \A i \in 1..n :
                 IsProjection(calls[(j - 1) * n + i], stored[j], planes[i],
                              CastTo(stored[j][ClampedAxis(planes[i])].dtype,
                                     limitNow(planes[i])))

\* shadows drawn again, of two submissions, after an earlier drawing was
\* followed by a change of the axis limits and then of the position map, the
\* limits being no longer those of the fixture and a drawn plane set to max
C11_Witness ==
    /\ last.op = "plot_shadows"
    /\ phase = 3
    /\ Len(AllData(last.self)) >= 2
    /\ calls # <<>>
    /\ lims # FixtureLims
    /\ \E i \in DOMAIN projectors[last.self].shadow_planes :
          DictGet(Positions(last.self),
                  projectors[last.self].shadow_planes[i], "min") = "max"

====
